---- MODULE Spec2Model ----
(***************************************************************************)
(* CMYK converter: the conversion endpoint (POST /api/convert) and the     *)
(* upload/status page that drives it.                                      *)
(*                                                                         *)
(* Strings that the code splits or concatenates (file names) are sequences *)
(* of one-character strings.  Byte buffers are sequences of 0..255.        *)
(***************************************************************************)
EXTENDS Integers, Sequences, FiniteSets, TLC

\* ------------------------------------------------------------------ bounds
MaxNameLen == 4
MaxImages == 2
MaxRequests == 3

\* --------------------------------------------------------- small helpers
Range(s) == {s[i] : i \in 1..Len(s)}

SeqsUpTo(S, n) == UNION {[1..k -> S] : k \in 0..n}

\* ===================================================================
\*  Conversion endpoint
\* ===================================================================

NameChars == {"a", "."}
PhotoJpg == <<"p", "h", "o", "t", "o", ".", "j", "p", "g">>
ArchiveTarPng == <<"a", "r", "c", "h", "i", "v", "e", ".", "t", "a", "r", ".", "p", "n", "g">>
FileNames == SeqsUpTo(NameChars, MaxNameLen) \cup {PhotoJpg, ArchiveTarPng}

allowedTypes == <<"image/jpeg", "image/jpg", "image/png">>
MimeTypes == Range(allowedTypes) \cup {"image/gif", "text/plain", ""}

\* What the uploaded bytes really are, whatever the declared type says.
Contents ==
    { [kind |-> "jpeg", width |-> 1, height |-> 1, alpha |-> FALSE],
      [kind |-> "png", width |-> 2, height |-> 1, alpha |-> FALSE],
      [kind |-> "png", width |-> 1, height |-> 1, alpha |-> TRUE],
      [kind |-> "corrupt", width |-> 0, height |-> 0, alpha |-> FALSE] }

Files == [t : {"file"}, name : FileNames, type : MimeTypes, content : Contents]

Null == [t |-> "null"]
Text(s) == [t |-> "string", v |-> s]

\* A request is either a body formData() cannot parse, or a form whose 'image'
\* entry is absent, a text value or a file.
Requests ==
    {[body |-> "malformed", image |-> Null]}
      \cup {[body |-> "form", image |-> v] : v \in {Null, Text(""), Text("x")} \cup Files}

\* formData.get('image')
FormDataGet(req) == req.image

\* JavaScript truthiness of the value formData.get returns
Truthy(v) ==
    CASE v.t = "null" -> FALSE
      [] v.t = "string" -> v.v # ""
      [] OTHER -> TRUE

\* file.type (undefined on a string)
TypeOf(v) == IF v.t = "file" THEN v.type ELSE "undefined"

\* file.name
NameOf(v) == IF v.t = "file" THEN v.name ELSE <<>>

\* Mutant of Includes: the scan stops one entry short.
IncludesButLast(list, x) == \E i \in 1..(Len(list) - 1) : list[i] = x

\* allowedTypes.includes(file.type)
Includes(list, x) == \E i \in 1..Len(list) : list[i] = x

\* ---------------------------------------------------------- String.split
\* name.split('.'): the segments between the separators, in order.
RECURSIVE Split(_, _)
Split(s, sep) ==
    IF \A i \in 1..Len(s) : s[i] # sep
    THEN <<s>>
    ELSE LET k == CHOOSE i \in 1..Len(s) :
                     s[i] = sep /\ \A j \in 1..(i - 1) : s[j] # sep
         IN <<SubSeq(s, 1, k - 1)>> \o Split(SubSeq(s, k + 1, Len(s)), sep)

Suffix == <<"_", "c", "m", "y", "k", ".", "t", "i", "f", "f">>

\* Mutant of OutputFilename: only the extension (after the last '.') is cut.
OutputFilenameLastDot(name) ==
    LET parts == Split(name, ".")
        keep == IF Len(parts) = 1 THEN Len(name) ELSE Len(name) - Len(parts[Len(parts)]) - 1
    IN SubSeq(name, 1, keep) \o Suffix

\* `${file.name.split('.')[0]}_cmyk.tiff`
OutputFilename(name) == Split(name, ".")[1] \o Suffix

\* -------------------------------------------------- image toolkit (sharp)
\* sharp(buffer): the decoded image.  A PNG with transparency has a fourth band.
SharpImage(content) ==
    [interpretation |-> "srgb",
     bands |-> IF content.alpha THEN 4 ELSE 3,
     width |-> content.width,
     height |-> content.height]

\* .toColorspace('cmyk'): the colour bands become C, M, Y, K; bands beyond the
\* colour bands (alpha) pass through.
ToColorspace(img, space) ==
    IF space = "cmyk"
    THEN [img EXCEPT !.interpretation = "cmyk", !.bands = 4 + (img.bands - 3)]
    ELSE img

\* Pixel data of an image, one byte per sample.
Samples(img) == [i \in 1..(img.width * img.height * img.bands) |-> (i * 85) % 256]

\* .tiff(...).toBuffer(): byte-order mark and magic number, then the
\* photometric interpretation (5 = separated, 2 = RGB), the samples per pixel
\* and the pixel data.
TiffBuffer(img) ==
    <<73, 73, 42, 0, IF img.interpretation = "cmyk" THEN 5 ELSE 2, img.bands>>
      \o Samples(img)

\* .jpeg({ quality: 90 }).toBuffer(): start-of-image marker, then three bands
\* of pixel data (JPEG carries no alpha).
JpegBuffer(img) == <<255, 216, 255>> \o Samples([img EXCEPT !.bands = 3])

\* sharp(buffer).metadata()
SharpMetadata(content) == [width |-> content.width, height |-> content.height]

\* ------------------------------------------------ Buffer.toString('base64')
\* Base64 text is a sequence of six-bit digits; 64 stands for the '=' padding.
RECURSIVE ToBase64(_)
ToBase64(bytes) ==
    CASE Len(bytes) = 0 -> <<>>
      [] Len(bytes) = 1 ->
           LET n == bytes[1] * 65536
           IN <<n \div 262144, (n \div 4096) % 64, 64, 64>>
      [] Len(bytes) = 2 ->
           LET n == bytes[1] * 65536 + bytes[2] * 256
           IN <<n \div 262144, (n \div 4096) % 64, (n \div 64) % 64, 64>>
      [] OTHER ->
           LET n == bytes[1] * 65536 + bytes[2] * 256 + bytes[3]
           IN <<n \div 262144, (n \div 4096) % 64, (n \div 64) % 64, n % 64>>
                \o ToBase64(SubSeq(bytes, 4, Len(bytes)))

\* `data:image/tiff;base64,${...}`: the part up to the comma, then the text.
DataUri(mime, bytes) == <<mime, ToBase64(bytes)>>

\* ------------------------------------------------------------- responses
ErrorBody(msg) == [error |-> msg]

Reply(status, body, calls) == [status |-> status, body |-> body, calls |-> calls]

NoFileMessage == <<"No file provided", "">>
InvalidTypeMessage == <<"Invalid file type", ". Only JPG, JPEG, and PNG are supported.">>
FailedMessage == <<"Failed to convert image", ". Please try again.">>

\* The library call the environment makes throw ("none": no call throws).
Faults == {"none", "arrayBuffer", "metadata", "preview", "tiff"}

\* A sharp call throws when the environment fails it, or the bytes are no image.
Throws(step, file, fault) == fault = step \/ file.content.kind = "corrupt"

\* Mutant of Caught: the reply also tells how far the pipeline got.
CaughtWithCause(calls) ==
    Reply(500, [error |-> FailedMessage, cause |-> calls], calls)

\* catch (error) { ... status: 500 }
Caught(calls) == Reply(500, ErrorBody(FailedMessage), calls)

\* NextResponse.json({ success: true, ... })
Success(file, metadata, previewBuffer, convertedBuffer, calls) ==
    Reply(200,
          [success |-> TRUE,
           previewUrl |-> DataUri("data:image/jpeg;base64", previewBuffer),
           downloadData |-> DataUri("data:image/tiff;base64", convertedBuffer),
           filename |-> OutputFilename(NameOf(file)),
           metadata |-> [width |-> metadata.width,
                         height |-> metadata.height,
                         format |-> "TIFF (CMYK)",
                         size |-> Len(convertedBuffer)]],
          calls)

\* Validation of the 'image' entry; "ok" lets the request through.
Validate(file) ==
    IF ~Truthy(file) THEN "missing"
    ELSE IF ~Includes(allowedTypes, TypeOf(file)) THEN "badtype"
    ELSE "ok"

\* The three sharp calls, in order, each made once; the first that throws ends
\* the handler in the catch block.
Process(file, fault) ==
    IF fault = "arrayBuffer" THEN Caught(<<>>)
    ELSE IF Throws("metadata", file, fault) THEN Caught(<<"metadata">>)
    ELSE IF Throws("preview", file, fault) THEN Caught(<<"metadata", "preview">>)
    ELSE IF Throws("tiff", file, fault) THEN Caught(<<"metadata", "preview", "tiff">>)
    ELSE Success(file,
                 SharpMetadata(file.content),
                 JpegBuffer(SharpImage(file.content)),
                 TiffBuffer(ToColorspace(SharpImage(file.content), "cmyk")),
                 <<"metadata", "preview", "tiff">>)

\* export async function POST(request)
POST(req, fault) ==
    IF req.body = "malformed"
    THEN Caught(<<>>)
    ELSE LET file == FormDataGet(req)
         IN CASE Validate(file) = "missing" -> Reply(400, ErrorBody(NoFileMessage), <<>>)
              [] Validate(file) = "badtype" -> Reply(400, ErrorBody(InvalidTypeMessage), <<>>)
              [] OTHER -> Process(file, fault)

\* ===================================================================
\*  Upload/status page (Home)
\* ===================================================================

VARIABLES
    images,         \* useState<ImageFile[]>: the item list
    isProcessing,   \* useState(false): the global processing flag
    pendingImages,  \* convertAllImages: the items its loop has still to convert
    inflight,       \* conversion requests sent and not yet settled
    revoked,        \* local preview references released by URL.revokeObjectURL
    nextId,         \* number of items created so far
    sent,           \* number of conversion requests sent so far
    batchPlan,      \* history: ids that were pending when convertAll was clicked
    batchSent,      \* history: ids the running (or last) convertAll sent requests for
    last,           \* history: the operation that led to this state
    apiReq,         \* endpoint: the request being handled
    apiFault,       \* endpoint: the library call that threw while handling it
    apiResp         \* endpoint: the reply to it, with the sharp calls made

uiVars == <<images, isProcessing, pendingImages, inflight, revoked, nextId, sent,
            batchPlan, batchSent, last>>
apiVars == <<apiReq, apiFault, apiResp>>
vars == <<images, isProcessing, pendingImages, inflight, revoked, nextId, sent,
          batchPlan, batchSent, last, apiReq, apiFault, apiResp>>

\* Files the dropzone lets through (accept: image/jpeg, image/png).
DropFiles ==
    { [t |-> "file", name |-> <<"a", ".", "a">>, type |-> "image/png",
       content |-> [kind |-> "png", width |-> 2, height |-> 1, alpha |-> FALSE]],
      [t |-> "file", name |-> <<"a">>, type |-> "image/jpeg",
       content |-> [kind |-> "corrupt", width |-> 0, height |-> 0, alpha |-> FALSE]] }

\* Optional fields hold <<>> when undefined and <<v>> when set.
Undefined == <<>>
Some(v) == <<v>>

\* onDrop: one new item.  Identifiers and preview URLs are distinct per item.
NewImage(n, file) ==
    [id |-> n, file |-> file, preview |-> n, status |-> "pending",
     previewUrl |-> Undefined, downloadData |-> Undefined, filename |-> Undefined,
     metadata |-> Undefined, error |-> Undefined]

Ids(imgs) == {imgs[i].id : i \in 1..Len(imgs)}

StatusOf(imgs, id) ==
    IF id \in Ids(imgs)
    THEN (CHOOSE x \in Range(imgs) : x.id = id).status
    ELSE "absent"

\* prev.map((img) => img.id === id ? { ...img, status: 'processing' } : img)
MarkProcessing(prev, id) ==
    [i \in 1..Len(prev) |->
        IF prev[i].id = id THEN [prev[i] EXCEPT !.status = "processing"] ELSE prev[i]]

\* Mutant of MarkCompleted: the result lands on every item being processed.
MarkCompletedAnyProcessing(prev, id, result) ==
    [i \in 1..Len(prev) |->
        IF prev[i].id = id \/ prev[i].status = "processing"
        THEN [prev[i] EXCEPT !.status = "completed",
                             !.previewUrl = <<result.previewUrl>>,
                             !.downloadData = <<result.downloadData>>,
                             !.filename = <<result.filename>>,
                             !.metadata = <<result.metadata>>]
        ELSE prev[i]]

\* prev.map(... { ...img, status: 'completed', previewUrl, downloadData, ... })
MarkCompleted(prev, id, result) ==
    [i \in 1..Len(prev) |->
        IF prev[i].id = id
        THEN [prev[i] EXCEPT !.status = "completed",
                             !.previewUrl = Some(result.previewUrl),
                             !.downloadData = Some(result.downloadData),
                             !.filename = Some(result.filename),
                             !.metadata = Some(result.metadata)]
        ELSE prev[i]]

\* prev.map(... { ...img, status: 'error', error: message })
MarkError(prev, id, message) ==
    [i \in 1..Len(prev) |->
        IF prev[i].id = id
        THEN [prev[i] EXCEPT !.status = "error", !.error = Some(message)]
        ELSE prev[i]]

\* formData.append('image', imageFile.file)
FormOf(file) == [body |-> "form", image |-> file]

\* How a fetch can end: the endpoint's reply, a rejected fetch, or a reply
\* whose body response.json() cannot parse.
OutcomesOf(file) ==
    {[kind |-> "reply", reply |-> POST(FormOf(file), f)] : f \in Faults}
      \cup {[kind |-> k, reply |-> Caught(<<>>)] : k \in {"network", "parse"}}

\* The same, tabulated for the files the page can hold.
FetchTable == [file \in DropFiles |-> OutcomesOf(file)]

FetchOutcomes(file) == FetchTable[file]

\* response.ok
Ok(reply) == reply.status \in 200..299

\* `Conversion failed: ${response.status} ${errorText}`
HttpMessage(reply) == <<"Conversion failed: ", reply.status, reply.body>>
NetworkMessage == <<"Failed to fetch">>
ParseMessage == <<"Unexpected end of JSON input">>

\* convertImage after the await: the try block's success update, or the catch.
Settle(prev, id, outcome) ==
    CASE outcome.kind = "network" -> MarkError(prev, id, NetworkMessage)
      [] outcome.kind = "parse" -> MarkError(prev, id, ParseMessage)
      [] ~Ok(outcome.reply) -> MarkError(prev, id, HttpMessage(outcome.reply))
      [] OTHER -> MarkCompleted(prev, id, outcome.reply.body)

OutcomeKind(outcome) ==
    IF outcome.kind = "reply"
    THEN (IF Ok(outcome.reply) THEN "ok" ELSE "http")
    ELSE outcome.kind

\* Mutant of PendingOf: failed items are taken up again as well.
PendingOrErrorOf(imgs) == SelectSeq(imgs, LAMBDA img : img.status \in {"pending", "error"})

\* images.filter((img) => img.status === 'pending')
PendingOf(imgs) == SelectSeq(imgs, LAMBDA img : img.status = "pending")

Request(rid, img, by) == [rid |-> rid, id |-> img.id, file |-> img.file, by |-> by]

\* Requests the page may still send without passing the bound: those already
\* sent and those the running convertAll is committed to.
Committed == sent + Len(pendingImages)

\* History record of an operation: the item it is about and that item's status
\* before it, how a settled request ended, whether the list was left as it
\* was, and the item (with its status before) a request was started for.
NoOp == [op |-> "init", id |-> 0, by |-> "none", prev |-> "absent", kind |-> "none",
         same |-> TRUE, startId |-> 0, startPrev |-> "absent"]

NoRequest == [body |-> "none", image |-> Null]
NoReply == Reply(0, ErrorBody(<<>>), <<>>)

Init ==
    /\ images = <<>>
    /\ isProcessing = FALSE
    /\ pendingImages = <<>>
    /\ inflight = {}
    /\ revoked = {}
    /\ nextId = 0
    /\ sent = 0
    /\ batchPlan = <<>>
    /\ batchSent = <<>>
    /\ last = NoOp
    /\ apiReq = NoRequest
    /\ apiFault = "none"
    /\ apiResp = NoReply

\* ------------------------------------------------------------ page actions

\* onDrop with one accepted file: a new pending item at the end of the list.
OnDrop(file) ==
    /\ nextId < MaxImages
    /\ nextId' = nextId + 1
    /\ images' = Append(images, NewImage(nextId + 1, file))
    /\ last' = [NoOp EXCEPT !.op = "drop", !.id = nextId + 1, !.same = FALSE]
    /\ UNCHANGED <<isProcessing, pendingImages, inflight, revoked, sent,
                   batchPlan, batchSent, apiReq, apiFault, apiResp>>

\* The item's "Convert to CMYK" button (enabled while pending or error):
\* convertImage up to its await.
ClickConvert(i) ==
    /\ i \in 1..Len(images)
    /\ images[i].status \in {"pending", "error"}
    /\ Committed < MaxRequests
    /\ images' = MarkProcessing(images, images[i].id)
    /\ inflight' = inflight \cup {Request(sent + 1, images[i], "item")}
    /\ sent' = sent + 1
    /\ last' = [NoOp EXCEPT !.op = "convert", !.id = images[i].id, !.by = "item",
                            !.prev = images[i].status, !.same = FALSE,
                            !.startId = images[i].id, !.startPrev = images[i].status]
    /\ UNCHANGED <<isProcessing, pendingImages, revoked, nextId,
                   batchPlan, batchSent, apiReq, apiFault, apiResp>>

\* Mutant of ConvertAllEnabled: the button ignores the processing flag.
ConvertAllEnabledIgnoringFlag ==
    /\ Len(images) > 0
    /\ \E i \in 1..Len(images) : images[i].status = "pending"

\* "Convert All to CMYK" (shown with a non-empty list; disabled while the flag
\* is set or nothing is pending): convertAllImages up to its first await,
\* which is inside the convertImage of the first pending item.
ConvertAllEnabled ==
    /\ Len(images) > 0
    /\ ~isProcessing
    /\ \E i \in 1..Len(images) : images[i].status = "pending"

ClickConvertAll ==
    /\ ConvertAllEnabled
    /\ sent + Len(PendingOf(images)) <= MaxRequests
    /\ LET queue == PendingOf(images)
       IN /\ isProcessing' = TRUE
          /\ images' = MarkProcessing(images, Head(queue).id)
          /\ inflight' = inflight \cup {Request(sent + 1, Head(queue), "batch")}
          /\ sent' = sent + 1
          /\ pendingImages' = Tail(queue)
          /\ batchSent' = <<Head(queue).id>>
          /\ last' = [NoOp EXCEPT !.op = "convertAll", !.by = "batch",
                                  !.same = FALSE,
                                  !.startId = Head(queue).id,
                                  !.startPrev = StatusOf(images, Head(queue).id)]
    /\ batchPlan' = [k \in 1..Cardinality({i \in 1..Len(images) : images[i].status = "pending"}) |->
                        images[CHOOSE i \in 1..Len(images) :
                                  /\ images[i].status = "pending"
                                  /\ Cardinality({j \in 1..i : images[j].status = "pending"}) = k].id]
    /\ UNCHANGED <<revoked, nextId, apiReq, apiFault, apiResp>>

\* A request settles: the rest of its convertImage.  When the request belongs
\* to convertAll, its loop goes on at once: the next item's convertImage up
\* to its await, or setIsProcessing(false) after the last one.
Respond(r, outcome) ==
    /\ r \in inflight
    /\ outcome \in FetchOutcomes(r.file)
    /\ LET settled == Settle(images, r.id, outcome)
           done == [NoOp EXCEPT !.op = "respond", !.id = r.id, !.by = r.by,
                                !.prev = StatusOf(images, r.id),
                                !.kind = OutcomeKind(outcome)]
       IN IF r.by = "batch" /\ pendingImages # <<>>
          THEN LET image == Head(pendingImages)
               IN /\ images' = MarkProcessing(settled, image.id)
                  /\ inflight' = (inflight \ {r}) \cup {Request(sent + 1, image, "batch")}
                  /\ sent' = sent + 1
                  /\ pendingImages' = Tail(pendingImages)
                  /\ batchSent' = Append(batchSent, image.id)
                  /\ last' = [done EXCEPT !.same = FALSE,
                                          !.startId = image.id,
                                          !.startPrev = StatusOf(settled, image.id)]
                  /\ UNCHANGED isProcessing
          ELSE /\ images' = settled
               /\ inflight' = inflight \ {r}
               /\ isProcessing' = IF r.by = "batch" THEN FALSE ELSE isProcessing
               /\ last' = [done EXCEPT !.same = (settled = images)]
               /\ UNCHANGED <<sent, pendingImages, batchSent>>
    /\ UNCHANGED <<revoked, nextId, batchPlan, apiReq, apiFault, apiResp>>

\* Mutant of ClearEnabled: the button also waits for outstanding requests.
ClearEnabledWhenIdle == Len(images) > 0 /\ ~isProcessing /\ inflight = {}

\* "Clear All" (shown with a non-empty list; disabled while the flag is set):
\* clearImages.
ClearEnabled == Len(images) > 0 /\ ~isProcessing

ClickClearAll ==
    /\ ClearEnabled
    /\ revoked' = revoked \cup {images[i].preview : i \in 1..Len(images)}
    /\ images' = <<>>
    /\ last' = [NoOp EXCEPT !.op = "clear", !.same = FALSE]
    /\ UNCHANGED <<isProcessing, pendingImages, inflight, nextId, sent,
                   batchPlan, batchSent, apiReq, apiFault, apiResp>>

\* atob(imageFile.downloadData.split(',')[1]), byte by byte
RECURSIVE FromBase64(_)
FromBase64(digits) ==
    IF Len(digits) < 4
    THEN <<>>
    ELSE LET d == SubSeq(digits, 1, 4)
             rest == FromBase64(SubSeq(digits, 5, Len(digits)))
         IN CASE d[3] = 64 -> <<(d[1] * 4 + d[2] \div 16) % 256>>
              [] d[4] = 64 ->
                   <<(d[1] * 4 + d[2] \div 16) % 256,
                     ((d[2] % 16) * 16 + d[3] \div 4) % 256>>
              [] OTHER ->
                   <<(d[1] * 4 + d[2] \div 16) % 256,
                     ((d[2] % 16) * 16 + d[3] \div 4) % 256,
                     ((d[3] % 4) * 64 + d[4]) % 256>> \o rest

\* Mutant of DownloadOffered: the button follows the stored payload, not the
\* status.
DownloadOfferedWithData(img) == img.downloadData # Undefined

\* {imageFile.status === 'completed' && (<Button ... Download TIFF />)}
DownloadOffered(img) == img.status = "completed"

\* !value on an optional string: undefined or the empty string
Missing(opt) == opt = Undefined \/ opt[1] = <<>>

\* downloadImage: nothing when downloadData or filename is missing; otherwise
\* the payload after the comma, decoded, saved as image/tiff under filename.
DownloadImage(img) ==
    IF Missing(img.downloadData) \/ Missing(img.filename)
    THEN [kind |-> "nothing", name |-> <<>>, type |-> "", bytes |-> <<>>]
    ELSE [kind |-> "saved", name |-> img.filename[1], type |-> "image/tiff",
          bytes |-> FromBase64(img.downloadData[1][2])]

\* "Download TIFF" (shown on completed items) -> downloadImage.
ClickDownload(i) ==
    /\ i \in 1..Len(images)
    /\ DownloadOffered(images[i])
    /\ last' = [NoOp EXCEPT !.op = "download", !.id = images[i].id,
                            !.prev = images[i].status,
                            !.kind = DownloadImage(images[i]).kind]
    /\ UNCHANGED <<images, isProcessing, pendingImages, inflight, revoked, nextId,
                   sent, batchPlan, batchSent, apiReq, apiFault, apiResp>>

Next ==
    \/ \E file \in DropFiles : OnDrop(file)
    \/ \E i \in 1..MaxImages : ClickConvert(i)
    \/ ClickConvertAll
    \/ \E r \in inflight : \E outcome \in FetchOutcomes(r.file) : Respond(r, outcome)
    \/ ClickClearAll
    \/ \E i \in 1..MaxImages : ClickDownload(i)

Spec == Init /\ [][Next]_vars

\* Every request sent is eventually answered or fails.
FairSpec == Spec /\ WF_vars(\E r \in inflight : \E outcome \in FetchOutcomes(r.file) : Respond(r, outcome))

\* --------------------------------------------------------- endpoint actions
Receive(req) ==
    /\ apiReq' = req
    /\ apiFault' = "none"
    /\ apiResp' = NoReply
    /\ UNCHANGED uiVars

Handle(fault) ==
    /\ apiReq # NoRequest
    /\ apiResp = NoReply
    /\ apiFault' = fault
    /\ apiResp' = POST(apiReq, fault)
    /\ UNCHANGED <<apiReq, images, isProcessing, pendingImages, inflight, revoked,
                   nextId, sent, batchPlan, batchSent, last>>

NextApi ==
    \/ \E req \in Requests : Receive(req)
    \/ \E fault \in Faults : Handle(fault)

SpecApi == Init /\ [][NextApi]_vars

\* ===================================================================
\*  Properties of the endpoint (checked under SpecApi)
\* ===================================================================

Replied == apiResp # NoReply
HasFile == apiReq.image.t = "file"
AllowedMime == {"image/jpeg", "image/jpg", "image/png"}
PassesValidation == HasFile /\ apiReq.image.type \in AllowedMime

\* C1: a file whose declared MIME type is outside {image/jpeg, image/jpg,
\* image/png} is answered 400 with a message starting 'Invalid file type' and
\* no sharp call is made; a file whose type is in the set is not rejected by
\* this check.
C1_InvalidTypeRejected ==
    (Replied /\ HasFile) =>
        IF apiReq.image.type \notin AllowedMime
        THEN /\ apiResp.status = 400
             /\ apiResp.body.error[1] = "Invalid file type"
             /\ apiResp.calls = <<>>
        ELSE apiResp.status # 400

C1_Witness ==
    /\ Replied
    /\ HasFile
    /\ apiReq.image.type = "image/gif"
    /\ apiReq.image.content.kind = "png"
    /\ apiResp.status = 400

\* C2: a request that carries no file in the 'image' field is answered 400
\* 'No file provided' (never 500, never 'Invalid file type'), and no sharp
\* call is made.
C2_NoFileProvided ==
    (Replied /\ ~HasFile) =>
        /\ apiResp.status = 400
        /\ apiResp.body.error = NoFileMessage
        /\ apiResp.calls = <<>>

\* The name up to, not including, its first '.': the whole name without one.
UpToFirstDot(name) ==
    IF \E i \in 1..Len(name) : name[i] = "."
    THEN SubSeq(name, 1, (CHOOSE i \in 1..Len(name) :
                              name[i] = "." /\ \A j \in 1..(i - 1) : name[j] # ".") - 1)
    ELSE name

\* C3: the filename of a successful conversion is the input name cut at its
\* first '.' followed by '_cmyk.tiff'; 'photo.jpg' gives 'photo_cmyk.tiff'
\* and 'archive.tar.png' gives 'archive_cmyk.tiff'.
C3_Filename ==
    (Replied /\ apiResp.status = 200) =>
        /\ apiResp.body.filename
             = UpToFirstDot(apiReq.image.name)
                 \o <<"_", "c", "m", "y", "k", ".", "t", "i", "f", "f">>
        /\ apiReq.image.name = PhotoJpg =>
             apiResp.body.filename
               = <<"p", "h", "o", "t", "o", "_", "c", "m", "y", "k", ".", "t", "i", "f", "f">>
        /\ apiReq.image.name = ArchiveTarPng =>
             apiResp.body.filename
               = <<"a", "r", "c", "h", "i", "v", "e", "_", "c", "m", "y", "k", ".", "t", "i", "f", "f">>

C3_Witness ==
    /\ Replied
    /\ apiResp.status = 200
    /\ apiReq.image.name = ArchiveTarPng
    /\ apiResp.body.filename
         = <<"a", "r", "c", "h", "i", "v", "e", "_", "c", "m", "y", "k", ".", "t", "i", "f", "f">>

\* A step of the pipeline threw while the request was handled.
PipelineThrew == apiFault # "none" \/ apiReq.image.content.kind = "corrupt"

\* C7: when a request passes validation and a step of the pipeline throws,
\* the reply is 500 with the fixed message and a body holding only the error
\* field (nothing of the steps that succeeded, nothing of the cause), and no
\* step was run twice.
C7_GenericFailure ==
    (Replied /\ PassesValidation /\ PipelineThrew) =>
        /\ apiResp.status = 500
        /\ DOMAIN apiResp.body = {"error"}
        /\ apiResp.body.error = <<"Failed to convert image", ". Please try again.">>
        /\ \A i, j \in 1..Len(apiResp.calls) :
               apiResp.calls[i] = apiResp.calls[j] => i = j
        /\ apiFault \in {"metadata", "preview", "tiff"}
             /\ apiReq.image.content.kind # "corrupt"
             => apiResp.calls[Len(apiResp.calls)] = apiFault

C7_Witness ==
    /\ Replied
    /\ PassesValidation
    /\ apiFault = "tiff"
    /\ apiReq.image.content.kind = "png"
    /\ apiResp.status = 500
    /\ apiResp.calls = <<"metadata", "preview", "tiff">>

\* C10: a successful conversion is answered 200 with success true, and the
\* base64 payload of downloadData decodes to a TIFF in CMYK with 4 samples
\* per pixel whose length is metadata.size, with metadata.format
\* 'TIFF (CMYK)'.
C10_CmykTiffPayload ==
    (Replied /\ apiResp.status \in 200..299) =>
        LET bytes == FromBase64(apiResp.body.downloadData[2])
        IN /\ apiResp.status = 200
           /\ apiResp.body.success = TRUE
           /\ apiResp.body.downloadData[1] = "data:image/tiff;base64"
           /\ Len(bytes) >= 6
           /\ SubSeq(bytes, 1, 4) = <<73, 73, 42, 0>>
           /\ bytes[5] = 5
           /\ bytes[6] = 4
           /\ Len(bytes) = apiResp.body.metadata.size
           /\ apiResp.body.metadata.format = "TIFF (CMYK)"

\* ===================================================================
\*  Properties of the page (checked under Spec and FairSpec)
\* ===================================================================

BatchRequests == {r \in inflight : r.by = "batch"}

\* C4: a convertAll started with N pending items sends exactly N requests,
\* one per pending item in list order, each only after the one before it
\* has settled; how a request ended never stops the loop.
C4_SerialBatch ==
    /\ Cardinality(BatchRequests) <= 1
    /\ Len(batchSent) <= Len(batchPlan)
    /\ batchSent = SubSeq(batchPlan, 1, Len(batchSent))
    /\ isProcessing =>
         /\ Cardinality(BatchRequests) = 1
         /\ \A r \in BatchRequests : r.id = batchSent[Len(batchSent)]
    /\ ~isProcessing => (BatchRequests = {} /\ batchSent = batchPlan)

C4_Witness ==
    /\ ~isProcessing
    /\ Len(batchPlan) = 2
    /\ batchSent = batchPlan
    /\ last.op = "respond"
    /\ last.by = "batch"
    /\ last.id = batchPlan[2]
    /\ StatusOf(images, batchPlan[1]) = "error"

\* C5: a request is only ever started for an item whose status is pending or
\* error, so no settled request finds its item completed (a completed item
\* stays completed, with its result, until it is cleared).
C5_OnlyPendingOrErrorConverted ==
    /\ last.startId # 0 => last.startPrev \in {"pending", "error"}
    /\ last.op = "respond" => last.prev # "completed"

\* C6 as stated: clearAll can be invoked in any state with items to clear,
\* also while requests of a batch are outstanding; after it the list is empty
\* and every preview reference is released, and a response for a cleared
\* item changes nothing.
C6_ClearAnyTime ==
    /\ Len(images) > 0 => ENABLED ClickClearAll
    /\ last.op = "clear" => (images = <<>> /\ (1..nextId) \subseteq revoked)
    /\ (last.op = "respond" /\ last.prev = "absent") => last.same

\* C6 amended: clearAll can be invoked whenever the list is not empty and no
\* convertAll is running, also while per-item requests are outstanding; after
\* it the list is empty and every preview reference is released, and a
\* response for a cleared item changes no item of the list.
C6_ClearWhenNoBatch ==
    /\ (Len(images) > 0 /\ ~isProcessing) => ENABLED ClickClearAll
    /\ isProcessing => ~ENABLED ClickClearAll
    /\ last.op = "clear" => (images = <<>> /\ (1..nextId) \subseteq revoked)
    /\ (last.op = "respond" /\ last.prev = "absent") => last.same
    /\ \A n \in 1..nextId : n \in Ids(images) \/ n \in revoked

C6_Witness ==
    /\ last.op = "respond"
    /\ last.prev = "absent"
    /\ last.kind = "ok"
    /\ last.id \in revoked
    /\ Len(images) > 0
    /\ \A i \in 1..Len(images) : images[i].status = "pending"

\* What a settled request must leave on its item.
Outcome(img, img2, outcome) ==
    CASE outcome.kind = "reply" /\ outcome.reply.status \in 200..299 ->
           /\ img2.status = "completed"
           /\ img2.previewUrl = <<outcome.reply.body.previewUrl>>
           /\ img2.downloadData = <<outcome.reply.body.downloadData>>
           /\ img2.filename = <<outcome.reply.body.filename>>
           /\ img2.metadata = <<outcome.reply.body.metadata>>
           /\ img2.error = img.error
      [] outcome.kind = "reply" ->
           /\ img2.status = "error"
           /\ img2.error = <<<<"Conversion failed: ", outcome.reply.status, outcome.reply.body>>>>
           /\ <<img2.previewUrl, img2.downloadData, img2.filename, img2.metadata>>
                = <<img.previewUrl, img.downloadData, img.filename, img.metadata>>
      [] OTHER ->
           /\ img2.status = "error"
           /\ img2.error \in {<<NetworkMessage>>, <<ParseMessage>>}
           /\ <<img2.previewUrl, img2.downloadData, img2.filename, img2.metadata>>
                = <<img.previewUrl, img.downloadData, img.filename, img.metadata>>

\* C8: an attempt puts its item in processing when its request is sent, and
\* ends once: a 2xx reply makes the item completed with that reply's
\* previewUrl, downloadData, filename and metadata; any other reply, or a
\* failed fetch or parse, makes it error with the message of that failure.
\* Nothing else in the list changes.  (An item cleared in the meantime is no
\* longer in the list and has no status to set.)
C8_OneOutcomePerAttempt ==
    [][LET started == inflight' \ inflight
           settled == inflight \ inflight'
       IN /\ Cardinality(started) <= 1
          /\ Cardinality(settled) <= 1
          /\ \A q \in started :
                /\ q.id \in Ids(images)
                /\ StatusOf(images', q.id) = "processing"
                /\ \A r \in inflight : q.rid # r.rid
          /\ (started # {} \/ settled # {}) =>
                /\ Len(images') = Len(images)
                /\ \A i \in 1..Len(images) :
                      IF \E q \in started : q.id = images[i].id
                      THEN images'[i] = [images[i] EXCEPT !.status = "processing"]
                      ELSE IF \E r \in settled : r.id = images[i].id
                      THEN \E outcome \in OutcomesOf(images[i].file) :
                              /\ OutcomeKind(outcome) = last'.kind
                              /\ Outcome(images[i], images'[i], outcome)
                      ELSE images'[i] = images[i]
      ]_vars

C8_Witness ==
    /\ last.op = "respond"
    /\ last.kind = "ok"
    /\ last.prev = "processing"
    /\ last.startId = 0
    /\ StatusOf(images, last.id) = "completed"
    /\ \E i \in 1..Len(images) :
          images[i].id # last.id /\ images[i].status = "processing"

\* C9: the flag is set exactly while a convertAll has a request outstanding,
\* convertAll cannot be started while it is set, so at most one loop runs;
\* and when every request settles the flag is cleared again.
C9_ProcessingFlag ==
    /\ [](isProcessing <=> BatchRequests # {})
    /\ [](Cardinality(BatchRequests) <= 1)
    /\ [](isProcessing => ~ENABLED ClickConvertAll)
    /\ [](~isProcessing => pendingImages = <<>>)
    /\ (isProcessing ~> ~isProcessing)

C9_Witness ==
    /\ isProcessing
    /\ Len(batchSent) = 2
    /\ last.op = "respond"
    /\ last.kind = "http"
    /\ Cardinality(BatchRequests) = 1

\* The body of the endpoint's 200 reply for a file.
ConvertedBody(file) == POST([body |-> "form", image |-> file], "none").body

\* C11: the download action is offered only for completed items (never for
\* pending, processing or error ones), every completed item holds the
\* downloadData and filename of the endpoint's 200 reply, and download on a
\* completed item always produces a file.
C11_DownloadOnlyCompleted ==
    /\ \A i \in 1..Len(images) :
          /\ DownloadOffered(images[i]) => images[i].status = "completed"
          /\ images[i].status \in {"pending", "processing", "error"}
                => ~DownloadOffered(images[i])
          /\ images[i].status = "completed" =>
                /\ images[i].downloadData = <<ConvertedBody(images[i].file).downloadData>>
                /\ images[i].filename = <<ConvertedBody(images[i].file).filename>>
                /\ images[i].filename # <<<<>>>>
                /\ DownloadImage(images[i]).kind = "saved"
                /\ DownloadImage(images[i]).name = ConvertedBody(images[i].file).filename
                /\ Len(DownloadImage(images[i]).bytes)
                     = ConvertedBody(images[i].file).metadata.size
    /\ last.op = "download" => (last.prev = "completed" /\ last.kind = "saved")

C11_Witness ==
    /\ last.op = "download"
    /\ last.kind = "saved"
    /\ StatusOf(images, last.id) = "completed"
    /\ \E i \in 1..Len(images) :
          images[i].status = "error" /\ ~DownloadOffered(images[i])

====
